---- MODULE Spec2Model ----
(***************************************************************************)
(* Verification model of the browser video transcoder                      *)
(* (soumyabiswas250498/video-converter).                                   *)
(*                                                                         *)
(* Seven state machines share this module:                                 *)
(*   SpecEst    the timeout estimator (lib/videoAnalysis and its inlined   *)
(*              predecessors), a pure function applied to probed inputs;   *)
(*   Spec       the job supervisor components (Transcoder and              *)
(*              SingleThreadedTranscoder, in each version kept in src/);   *)
(*   SpecDebug  the diagnostic batch runner (TranscoderDebug);             *)
(*   SpecCmd    the command builder (generateFFmpegCommand);               *)
(*   SpecHome   the page (Home), which mounts the supervisor components;   *)
(*   SpecProbe  the media probe (analyzeVideo) and its object URLs;        *)
(*   SpecMenu   the settings menu and its resolution options.              *)
(* A specification leaves the variables of the others at their initial     *)
(* values.                                                                 *)
(***************************************************************************)
EXTENDS Integers, Sequences, FiniteSets, TLC

VARIABLES
    \* ---- timeout estimator ----
    estVariant,      \* which version of the estimator is applied
    estAnalysis,     \* VideoAnalysis: [inputWidth, inputHeight, duration]
    estSettings,     \* OutputSettings.resolution as [w, h]
    estSingle,       \* isSingleThread argument
    estTimeout,      \* the last value returned, a rational <<num, den>> of ms
    estDone,         \* whether estTimeout holds a returned value
    \* ---- job supervisor: React state of the component ----
    variant,         \* which version of the supervisor component is mounted
    isLoaded,
    loadPc,          \* load(): "loading", "ready" or "failed"
    isTranscoding,
    progress,        \* percent, 0..100
    outputUrl,       \* 0 for null, j for the URL made from job j's readFile
    error,           \* "null" or the kind of message shown
    logMessages,     \* sequence of log lines, each named by the exec that emitted it
    videoAnalysis,   \* TRUE when a VideoAnalysis is stored, FALSE for null
    probePending,    \* an analysis of the current input and settings is in flight
    settings,        \* OutputSettings.resolution as [w, h]
    \* ---- job supervisor: the transcode() invocations and the engine ----
    nJobs,           \* accepted transcode() invocations so far
    pc,              \* pc[j]: where invocation j is suspended
    jobSettings,     \* the settings invocation j closed over, while it runs
    execSt,          \* execSt[j]: state of invocation j's ffmpeg.exec promise
    \* ---- job supervisor: timers ----
    wd,              \* effect watchdog: ticks left, -1 when none is armed
    tmr,             \* tmr[j]: ticks left of the timer invocation j created, -1 when not live
    timeoutRef,      \* timeoutRef.current: 0 for null, j for invocation j's timer
    \* ---- job supervisor: history ----
    since,           \* ticks since the latest job's start or latest event
    gapsOk,          \* every such gap of the latest job was shorter than the budget
    timedOut,        \* timedOut[j]: a watchdog fired while job j was the running job
    probeFailed,     \* probeFailed[j]: the analyzeVideo() of invocation j could not read the input
    dropped,         \* a progress event outside [0,1] has reached the handler
    \* ---- job supervisor: the engine's virtual storage ----
    outFile,         \* the job whose exec wrote 'output.mp4', 0 if the file is absent
    \* ---- diagnostic batch runner (TranscoderDebug) ----
    dbgLoadPc,       \* load(): "loading", "ready" (isLoaded) or "failed"
    dbgInputFile,    \* TRUE when the inputFile prop is not null
    isTesting,
    debugResults,    \* sequence of DebugResult: [status, logs], in TEST_RESOLUTIONS order
    dbgBatch,        \* runDebugTest() invocations accepted so far
    dbgPc,           \* where runDebugTest() is suspended
    trialIx,         \* the loop variable i of runDebugTest(), counted from 1
    dbgExec,         \* dbgExec[h]: state of the exec promise of trial h
    dbgTmr,          \* dbgTmr[h]: ticks left of the timeoutPromise timer of trial h
    currentLogs,     \* currentLogs[h]: the array the log handler of trial h closes over
    dbgLines,        \* log events emitted by the engine so far
    \* ---- command builder (generateFFmpegCommand) ----
    cmdFile,         \* inputFile.name as the parts name.split(".") yields
    cmdSettings,     \* OutputSettings: [resolution, framerate, bitrate, audioMono]
    ffmpegCommand,   \* the command string on display, "" when there is none
    cmdFresh,        \* ffmpegCommand was built from the current cmdFile and cmdSettings
    cmdBuilds,       \* builds so far
    refInput,        \* the <<file, settings>> of the first build
    refCommand,      \* the string the first build returned
    execArgs,        \* the args transcode() gave ffmpeg.exec for the current props, <<>> if none
    \* ---- page (Home) ----
    selectedFile,    \* 0 for null, otherwise the file the input handed over
    metaPending,     \* files whose <video> metadata handlers have not fired
    videoProps,      \* videoProps is not null
    outputSettings,  \* 0 for null, otherwise the settings the menu handed over
    transcoderMode,  \* "multi" or "single"
    engines,         \* one entry per FFmpeg instance a mounted component keeps
    \* ---- media probe (analyzeVideo) ----
    prbVariant,      \* which version of analyzeVideo runs
    prbPc,           \* prbPc[p]: "unused", "skipped", "loading", "loaded" or "failed"
    prbUrl,          \* prbUrl[p]: "none", "held" (created, not revoked) or "revoked"
    prbStored,       \* the probe whose result videoAnalysis holds, 0 for null
    \* ---- settings menu (OutputSettingsMenu) ----
    menuVariant,     \* which version of generateResolutionOptions the menu uses
    menuInput,       \* the video properties the menu was given: [w, h], 0x0 before the first
    resolutions,     \* the options offered
    menuResolution   \* settings.resolution of the menu as [w, h], 0x0 for ''

estVars == <<estVariant, estAnalysis, estSettings, estSingle, estTimeout, estDone>>

uiVars == <<isLoaded, loadPc, isTranscoding, progress, outputUrl, error, logMessages,
            videoAnalysis, probePending, settings>>

jobVars == <<nJobs, pc, jobSettings, execSt>>

timerVars == <<wd, tmr, timeoutRef>>

histVars == <<since, gapsOk, timedOut, probeFailed, dropped>>

supVars == <<variant, uiVars, jobVars, timerVars, histVars, outFile>>

dbgVars == <<dbgLoadPc, dbgInputFile, isTesting, debugResults, dbgBatch, dbgPc, trialIx,
             dbgExec, dbgTmr, currentLogs, dbgLines>>

cmdVars == <<cmdFile, cmdSettings, ffmpegCommand, cmdFresh, cmdBuilds, refInput,
             refCommand, execArgs>>

homeVars == <<selectedFile, metaPending, videoProps, outputSettings, transcoderMode,
              engines>>

prbVars == <<prbVariant, prbPc, prbUrl, prbStored>>

menuVars == <<menuVariant, menuInput, resolutions, menuResolution>>

vars == <<estVars, supVars, dbgVars, cmdVars, homeVars, prbVars, menuVars>>

-----------------------------------------------------------------------------
(* Bounds of the model                                                     *)

\* transcode() invocations accepted in one behaviour.
MaxJobs == 2

\* Length of a watchdog interval in clock ticks.
Budget == 2

\* Log lines kept in logMessages.
MaxLogs == 1

Jobs == 1..MaxJobs

\* runDebugTest() invocations accepted in one behaviour.
MaxBatches == 1

\* Length of the per-trial timeout in clock ticks.
TrialBudget == 1

\* Log events the engine emits in one behaviour.
MaxDbgLines == 2

\* const TEST_RESOLUTIONS = ["1920x1080", "1280x720", "854x480", "640x360"]
TEST_RESOLUTIONS == <<"1920x1080", "1280x720", "854x480", "640x360">>

NConf == Len(TEST_RESOLUTIONS)

\* The trials of every batch, numbered in the order their iteration starts.
Trials == 1..(MaxBatches * NConf)

\* Builds of the command string counted in one behaviour.
MaxBuilds == 2

\* Runs of analyzeVideo in one behaviour.
MaxProbes == 3

Probes == 1..MaxProbes

-----------------------------------------------------------------------------
(* The parts at rest: what a specification sets for the machines it does   *)
(* not run.                                                                *)

EstIdle ==
    /\ estVariant = "lib"
    /\ estAnalysis = [inputWidth |-> 1, inputHeight |-> 1, duration |-> 0]
    /\ estSettings = [w |-> 1, h |-> 1]
    /\ estSingle = FALSE
    /\ estTimeout = <<0, 1>>
    /\ estDone = FALSE

SupIdle ==
    /\ variant = "mtEffect"
    /\ isLoaded = FALSE
    /\ loadPc = "loading"
    /\ isTranscoding = FALSE
    /\ progress = 0
    /\ outputUrl = 0
    /\ error = "null"
    /\ logMessages = <<>>
    /\ videoAnalysis = FALSE
    /\ probePending = TRUE
    /\ settings = [w |-> 1920, h |-> 1080]
    /\ nJobs = 0
    /\ pc = [j \in Jobs |-> "unused"]
    /\ jobSettings = [j \in Jobs |-> [w |-> 0, h |-> 0]]
    /\ execSt = [j \in Jobs |-> "none"]
    /\ wd = -1
    /\ tmr = [j \in Jobs |-> -1]
    /\ timeoutRef = 0
    /\ since = 0
    /\ gapsOk = TRUE
    /\ timedOut = [j \in Jobs |-> FALSE]
    /\ probeFailed = [j \in Jobs |-> FALSE]
    /\ dropped = FALSE
    /\ outFile = 0

DbgIdle ==
    /\ dbgLoadPc = "loading"
    /\ dbgInputFile = FALSE
    /\ isTesting = FALSE
    /\ debugResults = <<>>
    /\ dbgBatch = 0
    /\ dbgPc = "idle"
    /\ trialIx = 0
    /\ dbgExec = [h \in Trials |-> "none"]
    /\ dbgTmr = [h \in Trials |-> -1]
    /\ currentLogs = [h \in Trials |-> <<>>]
    /\ dbgLines = 0

HomeIdle ==
    /\ selectedFile = 0
    /\ metaPending = {}
    /\ videoProps = FALSE
    /\ outputSettings = 0
    /\ transcoderMode = "multi"
    /\ engines = <<>>

PrbIdle ==
    /\ prbVariant = "lib"
    /\ prbPc = [p \in Probes |-> "unused"]
    /\ prbUrl = [p \in Probes |-> "none"]
    /\ prbStored = 0

MenuIdle ==
    /\ menuVariant = "filtered"
    /\ menuInput = [w |-> 0, h |-> 0]
    /\ resolutions = <<>>
    /\ menuResolution = [w |-> 0, h |-> 0]

CmdIdle ==
    /\ cmdFile = <<"clip", "mp4">>
    /\ cmdSettings = [resolution |-> [w |-> 1920, h |-> 1080], framerate |-> 24,
                      bitrate |-> 2000, audioMono |-> FALSE]
    /\ ffmpegCommand = ""
    /\ cmdFresh = FALSE
    /\ cmdBuilds = 0
    /\ refInput = <<>>
    /\ refCommand = ""
    /\ execArgs = <<>>

-----------------------------------------------------------------------------
(* Exact rational arithmetic: JavaScript numbers are modelled by the       *)
(* rationals they denote, <<n, d>> with d > 0, kept in lowest terms.       *)

RECURSIVE GCD(_, _)
GCD(a, b) == IF b = 0 THEN a ELSE GCD(b, a % b)

Norm(q) ==
    LET g == GCD(q[1], q[2])
    IN  IF q[1] = 0 THEN <<0, 1>> ELSE <<q[1] \div g, q[2] \div g>>

Q(n) == <<n, 1>>

MulQ(p, q) ==
    LET a == Norm(<<p[1], q[2]>>)
        b == Norm(<<q[1], p[2]>>)
    IN  Norm(<<a[1] * b[1], a[2] * b[2]>>)

AddQ(p, q) == Norm(<<p[1] * q[2] + q[1] * p[2], p[2] * q[2]>>)

LeQ(p, q) == p[1] * q[2] <= q[1] * p[2]

LtQ(p, q) == p[1] * q[2] < q[1] * p[2]

MaxQ(p, q) == IF LeQ(p, q) THEN q ELSE p

MinQ(p, q) == IF LeQ(p, q) THEN p ELSE q

-----------------------------------------------------------------------------
(* Timeout estimator                                                       *)

\* Probed durations in seconds (video.duration), including an empty clip.
Durations == {0, 1, 30, 120, 600, 3600}

\* Frame sizes of inputs and of targets.
Sizes == { [w |-> 320,  h |-> 240],
           [w |-> 640,  h |-> 360],
           [w |-> 1280, h |-> 720],
           [w |-> 1920, h |-> 1080],
           [w |-> 2560, h |-> 1440] }

EstVariants == {"lib", "inline4", "clamped", "timeoutRef"}

Analysis(size, d) == [inputWidth |-> size.w, inputHeight |-> size.h, duration |-> d]

\* analyzeVideo: scaleFactor = max(inputWidth / outputWidth, inputHeight / outputHeight)
scaleFactorOf(analysis, stg) ==
    MaxQ(Norm(<<analysis.inputWidth, stg.w>>),
         Norm(<<analysis.inputHeight, stg.h>>))

\* Math.max(1, scaleFactor) with scaleFactor = outputPixels / inputPixels
complexityOutIn(analysis, stg) ==
    LET inputPixels   == analysis.inputWidth * analysis.inputHeight
        outputPixels  == stg.w * stg.h
        scaleFactor   == Norm(<<outputPixels, inputPixels>>)
    IN  MaxQ(Q(1), scaleFactor)

\* segmentLength * Math.max(1, scaleFactor), in seconds
expectedSeconds(analysis, stg) ==
    LET segmentLength == MulQ(Q(analysis.duration), <<1, 200>>)
    IN  MulQ(segmentLength, complexityOutIn(analysis, stg))

\* lib/videoAnalysis calcTimeoutPerHalfPercent: no clamp
calcTimeoutPerHalfPercent(analysis, stg, isSingleThread) ==
    IF isSingleThread
    THEN MulQ(MulQ(expectedSeconds(analysis, stg), Q(8)), Q(1000))
    ELSE MulQ(MulQ(expectedSeconds(analysis, stg), Q(4)), Q(1000))

\* Transcoder's earlier in-file calcTimeoutPerHalfPercent: 4x, no clamp
calcTimeoutInline4(analysis, stg) ==
    MulQ(MulQ(expectedSeconds(analysis, stg), Q(4)), Q(1000))

FloorMs == 10000

CeilingMs == 120000

\* complexityFactor = Math.max(1, scaleRatio) with scaleRatio = inputPixels / outputPixels
complexityInOut(analysis, stg) ==
    LET inputPixels      == analysis.inputWidth * analysis.inputHeight
        product          == stg.w * stg.h
        outputPixels     == IF product = 0 THEN 1 ELSE product
        scaleRatio       == Norm(<<inputPixels, outputPixels>>)
    IN  MaxQ(Q(1), scaleRatio)

\* SingleThreadedTranscoder's earlier in-file calcTimeoutPerHalfPercent:
\* inverse ratio, 8x, clamped
calcTimeoutClamped(analysis, stg) ==
    LET segmentLength    == MulQ(Q(analysis.duration), <<1, 200>>)
        expected         == MulQ(segmentLength, complexityInOut(analysis, stg))
        timeoutMs        == MulQ(MulQ(expected, Q(8)), Q(1000))
    IN  MaxQ(Q(FloorMs), MinQ(timeoutMs, Q(CeilingMs)))

BaseTimeoutMs == 120000

MaxTimeoutMs == 600000

\* transcode() of the timeoutRef versions: timeoutDuration
timeoutDuration(analysis, stg) ==
    LET sf == scaleFactorOf(analysis, stg)
        processingMultiplier ==
            IF LtQ(<<5, 2>>, sf) THEN 8 ELSE IF LtQ(<<3, 2>>, sf) THEN 6 ELSE 4
    IN  MinQ(AddQ(MulQ(MulQ(Q(analysis.duration), Q(processingMultiplier)), Q(1000)),
                  Q(BaseTimeoutMs)),
             Q(MaxTimeoutMs))

\* Transcoder: duration = calcTimeoutPerHalfPercent(videoAnalysis, settings, false)
\* for a videoAnalysis that is not null.
TranscoderDuration(analysis, stg) ==
    calcTimeoutPerHalfPercent(analysis, stg, FALSE)

\* SingleThreadedTranscoder: duration = calcTimeoutPerHalfPercent(videoAnalysis,
\* settings, false) for a videoAnalysis that is not null.
SingleThreadedDuration(analysis, stg) ==
    calcTimeoutPerHalfPercent(analysis, stg, FALSE)

\* The estimate of one version of the code.
Estimate(v, analysis, stg, isSingleThread) ==
    CASE v = "lib"        -> calcTimeoutPerHalfPercent(analysis, stg, isSingleThread)
      [] v = "inline4"    -> calcTimeoutInline4(analysis, stg)
      [] v = "clamped"    -> calcTimeoutClamped(analysis, stg)
      [] v = "timeoutRef" -> timeoutDuration(analysis, stg)

InitEst ==
    /\ estVariant \in EstVariants
    /\ estAnalysis \in {Analysis(s, d) : s \in Sizes, d \in Durations}
    /\ estSettings \in Sizes
    /\ estSingle \in BOOLEAN
    /\ estTimeout = Q(0)
    /\ estDone = FALSE
    /\ SupIdle
    /\ DbgIdle
    /\ CmdIdle
    /\ HomeIdle
    /\ PrbIdle
    /\ MenuIdle

\* The probe settles for another input: a new VideoAnalysis is stored.
EstProbe ==
    /\ \E s \in Sizes, d \in Durations : estAnalysis' = Analysis(s, d)
    /\ estDone' = FALSE
    /\ estTimeout' = Q(0)
    /\ UNCHANGED <<estVariant, estSettings, estSingle, supVars, dbgVars, cmdVars, homeVars, prbVars, menuVars>>

\* The settings menu reports another resolution.
EstChangeSettings ==
    /\ \E s \in Sizes : estSettings' = s
    /\ estDone' = FALSE
    /\ estTimeout' = Q(0)
    /\ UNCHANGED <<estVariant, estAnalysis, estSingle, supVars, dbgVars, cmdVars, homeVars, prbVars, menuVars>>

\* A render computes the budget from the stored analysis and settings.
EstCompute ==
    /\ ~estDone
    /\ estTimeout' = Estimate(estVariant, estAnalysis, estSettings, estSingle)
    /\ estDone' = TRUE
    /\ UNCHANGED <<estVariant, estAnalysis, estSettings, estSingle, supVars, dbgVars, cmdVars, homeVars, prbVars, menuVars>>

NextEst == EstProbe \/ EstChangeSettings \/ EstCompute

SpecEst == InitEst /\ [][NextEst]_vars

\* The interval a version clamps to.  The versions that clamp nothing are
\* measured against the interval of the version that does.
EstFloor(v) == IF v = "timeoutRef" THEN BaseTimeoutMs ELSE FloorMs

EstCeiling(v) == IF v = "timeoutRef" THEN MaxTimeoutMs ELSE CeilingMs

EstimateAt(d) ==
    Estimate(estVariant, [estAnalysis EXCEPT !.duration = d], estSettings, estSingle)

\* The estimate never decreases when only the probed duration grows.
EstMonotone ==
    \A d1, d2 \in Durations : d1 <= d2 => LeQ(EstimateAt(d1), EstimateAt(d2))

\* C6: the timeout estimate is monotonically non-decreasing in the probed
\* duration (dimensions, settings and mode fixed) and every returned value,
\* also for duration 0, lies within the fixed [floor, ceiling] interval.
C6_EstimateMonotoneWithinFloorCeiling ==
    /\ EstMonotone
    /\ estDone => /\ LeQ(Q(EstFloor(estVariant)), estTimeout)
                  /\ LeQ(estTimeout, Q(EstCeiling(estVariant)))

ScenarioAnalysis == Analysis([w |-> 1920, h |-> 1080], 120)

ScenarioSettings == [w |-> 640, h |-> 360]

EstComplexity(v, analysis, stg) ==
    IF v = "clamped" THEN complexityInOut(analysis, stg)
                     ELSE complexityOutIn(analysis, stg)

\* C7: for input 1920x1080 of 120 s and target 640x360 the complexity factor
\* is 1, the expected time is 0.6 s, and the returned budget is the floor.
C7_ScenarioBudgetIsFloor ==
    (estDone /\ estAnalysis = ScenarioAnalysis /\ estSettings = ScenarioSettings
             /\ estVariant \in {"lib", "inline4", "clamped"})
        => /\ EstComplexity(estVariant, estAnalysis, estSettings) = Q(1)
           /\ MulQ(MulQ(Q(estAnalysis.duration), <<1, 200>>),
                    EstComplexity(estVariant, estAnalysis, estSettings)) = <<3, 5>>
           /\ estTimeout = Q(EstFloor(estVariant))

\* C23: for the same analysis and settings the watchdog budget of the
\* single-threaded component is strictly larger than that of the multi-threaded
\* component.
C23_SingleThreadBudgetLarger ==
    estDone => LtQ(TranscoderDuration(estAnalysis, estSettings),
                   SingleThreadedDuration(estAnalysis, estSettings))

-----------------------------------------------------------------------------
(* Job supervisor                                                          *)
(*                                                                         *)
(* Versions of the component kept in src/:                                 *)
(*   mtFirst   Transcoder, probe inside transcode(), watchdog in timeoutRef *)
(*   mtEffect  Transcoder, watchdog in a useEffect                         *)
(*   stEffect  SingleThreadedTranscoder, watchdog in a useEffect           *)
(*   mtRef     Transcoder, watchdog in timeoutRef                          *)
(*   stRef     SingleThreadedTranscoder, watchdog in timeoutRef            *)
(*   stPlain   SingleThreadedTranscoder with no watchdog and no finally    *)
(* Every action is one run-to-completion task of the event loop followed   *)
(* by the render and the effects it triggers.                              *)

Variants == {"mtFirst", "mtEffect", "stEffect", "mtRef", "stRef", "stPlain"}

\* transcode() checks the resolution ceiling.
Validates(v) == v \in {"mtFirst", "mtEffect", "mtRef", "stRef"}

\* The watchdog is the useEffect on [duration, logMessages.length, isTranscoding].
EffectWatchdog(v) == v \in {"mtEffect", "stEffect"}

\* The watchdog is the timer kept in timeoutRef.
RefWatchdog(v) == v \in {"mtFirst", "mtRef", "stRef"}

\* transcode() ends with finally { setIsTranscoding(false) }.
HasFinally(v) == v # "stPlain"

\* The catch block reports only errors with a message that does not contain
\* 'Transcoding terminated'.
CatchFilters(v) == v \in {"stEffect", "stPlain"}

\* transcode() sets timeoutRef.current = null after clearing the timer.
NullsRef(v) == v \in {"mtFirst", "mtRef"}

\* transcode() awaits its own analyzeVideo(), which resolves with defaults when the
\* metadata cannot be read; there is no videoAnalysis state and no analysis effect.
ProbesInside(v) == v = "mtFirst"

\* The 'log' handler stores the line in logMessages.
KeepsLogs(v) == v # "mtFirst"

\* Resolutions the settings menu can hand over; the last is above the ceiling.
Resolutions == { [w |-> 1920, h |-> 1080], [w |-> 2560, h |-> 1080] }

\* width > 1920 || height > 1080
AboveCeiling(r) == r.w > 1920 \/ r.h > 1080

\* Values of a progress event in percent of 1: two of them out of range.
ProgressValues == {-50, 0, 100, 150}

\* What a rejected promise carries: a message, a message containing
\* 'Transcoding terminated', or no message.
ErrKinds == {"plain", "terminated", "nomsg"}

\* Invocations whose exec has been issued and has not settled.
Outstanding == {j \in Jobs : execSt[j] \in {"running", "hung"}}

\* Invocation j is suspended at an await.
Active(j) == pc[j] \in {"fetch", "write", "exec", "read"}

\* The watchdog effect after a render: a changed dependency runs the cleanup
\* and, while isTranscoding, arms a new timer.
WdAfter(newTranscoding, newLen, newAnalysis) ==
    IF ~EffectWatchdog(variant) THEN -1
    ELSE IF newTranscoding # isTranscoding \/ newLen # Len(logMessages)
            \/ newAnalysis # videoAnalysis
         THEN (IF newTranscoding THEN Budget ELSE -1)
         ELSE wd

\* clearTimeout(timeoutRef.current) when it is set.
ClearedTmr == IF timeoutRef # 0 THEN [tmr EXCEPT ![timeoutRef] = -1] ELSE tmr

\* The settings of a transcode() closure before and after it runs.
NoSettings == [w |-> 0, h |-> 0]

\* Invocation j has called ffmpeg.writeFile.
WriteIssued(j) == pc[j] \in {"write", "exec", "read"} \/ execSt[j] # "none"

\* The latest job restarts its gap (an event of its own) or stops being timed.
Untrack(j) == since' = IF j = nJobs THEN 0 ELSE since

InitSup ==
    /\ variant \in Variants
    /\ isLoaded = FALSE
    /\ loadPc = "loading"
    /\ isTranscoding = FALSE
    /\ progress = 0
    /\ outputUrl = 0
    /\ error = "null"
    /\ logMessages = <<>>
    /\ videoAnalysis = FALSE
    /\ probePending = ~ProbesInside(variant)
    /\ settings \in Resolutions
    /\ nJobs = 0
    /\ pc = [j \in Jobs |-> "unused"]
    /\ jobSettings = [j \in Jobs |-> [w |-> 0, h |-> 0]]
    /\ execSt = [j \in Jobs |-> "none"]
    /\ wd = -1
    /\ tmr = [j \in Jobs |-> -1]
    /\ timeoutRef = 0
    /\ since = 0
    /\ gapsOk = TRUE
    /\ timedOut = [j \in Jobs |-> FALSE]
    /\ probeFailed = [j \in Jobs |-> FALSE]
    /\ dropped = FALSE
    /\ outFile = 0

\* load(): ffmpeg.load() resolves.
LoadResolve ==
    /\ loadPc = "loading"
    /\ loadPc' = "ready"
    /\ isLoaded' = TRUE
    /\ UNCHANGED <<variant, isTranscoding, progress, outputUrl, error, logMessages,
                   videoAnalysis, probePending, settings, jobVars, timerVars, histVars,
                   estVars, dbgVars, cmdVars, homeVars, prbVars, outFile, menuVars>>

\* load() as it would be with setIsLoaded(true) after the try block: a
\* rejected ffmpeg.load() still sets the ready flag.
LoadRejectSetsLoaded ==
    /\ loadPc = "loading"
    /\ loadPc' = "failed"
    /\ error' = "load"
    /\ isLoaded' = TRUE
    /\ UNCHANGED <<variant, isTranscoding, progress, outputUrl, logMessages,
                   videoAnalysis, probePending, settings, jobVars, timerVars, histVars,
                   estVars, dbgVars, cmdVars, homeVars, prbVars, outFile, menuVars>>

\* load(): ffmpeg.load() rejects.
LoadReject ==
    /\ loadPc = "loading"
    /\ loadPc' = "failed"
    /\ error' = "load"
    /\ UNCHANGED <<variant, isLoaded, isTranscoding, progress, outputUrl, logMessages,
                   videoAnalysis, probePending, settings, jobVars, timerVars, histVars,
                   estVars, dbgVars, cmdVars, homeVars, prbVars, outFile, menuVars>>

\* The settings prop changes: the analysis effect starts a probe. `duration` is
\* computed from the settings at every render, so its value changes unless the
\* clamp gives the same number, and a changed value re-runs the watchdog effect.
ChangeSettings ==
    /\ \E r \in Resolutions : r # settings /\ settings' = r
    /\ probePending' = ~ProbesInside(variant)
    /\ \E durationChanged \in BOOLEAN :
          wd' = IF durationChanged /\ EffectWatchdog(variant) /\ isTranscoding
                THEN Budget ELSE wd
    /\ UNCHANGED <<variant, isLoaded, loadPc, isTranscoding, progress, outputUrl, error,
                   logMessages, videoAnalysis, jobVars, tmr, timeoutRef, histVars, estVars, dbgVars, cmdVars, homeVars, prbVars, outFile, menuVars>>

\* The probe settles with metadata: setVideoAnalysis(analysis).
ProbeResolve ==
    /\ probePending
    /\ probePending' = FALSE
    /\ videoAnalysis' = TRUE
    /\ wd' = WdAfter(isTranscoding, Len(logMessages), TRUE)
    /\ UNCHANGED <<variant, isLoaded, loadPc, isTranscoding, progress, outputUrl, error,
                   logMessages, settings, jobVars, tmr, timeoutRef, histVars, estVars, dbgVars, cmdVars, homeVars, prbVars, outFile, menuVars>>

\* The probe fails: setVideoAnalysis(null).
ProbeReject ==
    /\ probePending
    /\ probePending' = FALSE
    /\ videoAnalysis' = FALSE
    /\ wd' = WdAfter(isTranscoding, Len(logMessages), FALSE)
    /\ UNCHANGED <<variant, isLoaded, loadPc, isTranscoding, progress, outputUrl, error,
                   logMessages, settings, jobVars, tmr, timeoutRef, histVars, estVars, dbgVars, cmdVars, homeVars, prbVars, outFile, menuVars>>

\* The guard of transcode() lets the call through:
\* !(!isLoaded || isTranscoding || !videoAnalysis), without the last where
\* the component has no videoAnalysis.
GuardPasses == isLoaded /\ ~isTranscoding /\ (ProbesInside(variant) \/ videoAnalysis)

\* transcode(): if (!isLoaded || isTranscoding || !videoAnalysis) return;
StartIgnored ==
    /\ ~GuardPasses
    /\ UNCHANGED vars

\* The ceiling check placed after the resets of an accepted start.
StartInvalidAfterResets ==
    /\ GuardPasses
    /\ Validates(variant) /\ AboveCeiling(settings)
    /\ error' = "validation"
    /\ progress' = 0
    /\ outputUrl' = 0
    /\ logMessages' = <<>>
    /\ UNCHANGED <<variant, isLoaded, loadPc, isTranscoding,
                   videoAnalysis, probePending, settings,
                   jobVars, timerVars, histVars, estVars, dbgVars, cmdVars, homeVars, prbVars, outFile, menuVars>>

\* transcode(): the resolution ceiling check fails.
StartInvalid ==
    /\ GuardPasses
    /\ Validates(variant) /\ AboveCeiling(settings)
    /\ error' = "validation"
    /\ UNCHANGED <<variant, isLoaded, loadPc, isTranscoding, progress, outputUrl,
                   logMessages, videoAnalysis, probePending, settings,
                   jobVars, timerVars, histVars, estVars, dbgVars, cmdVars, homeVars, prbVars, outFile, menuVars>>

\* transcode(): the job is accepted and suspends at fetchFile.
StartAccepted ==
    /\ GuardPasses /\ ~ProbesInside(variant)
    /\ ~(Validates(variant) /\ AboveCeiling(settings))
    /\ nJobs < MaxJobs
    /\ nJobs' = nJobs + 1
    /\ isTranscoding' = TRUE
    /\ progress' = 0
    /\ outputUrl' = 0
    /\ error' = "null"
    /\ logMessages' = <<>>
    /\ pc' = [pc EXCEPT ![nJobs + 1] = "fetch"]
    /\ jobSettings' = [jobSettings EXCEPT ![nJobs + 1] = settings]
    /\ wd' = WdAfter(TRUE, 0, videoAnalysis)
    /\ since' = 0
    /\ gapsOk' = TRUE
    /\ UNCHANGED <<variant, isLoaded, loadPc, videoAnalysis, probePending, settings,
                   execSt, tmr, timeoutRef, timedOut, probeFailed, dropped, estVars, dbgVars, cmdVars, homeVars, prbVars, outFile, menuVars>>

\* transcode() with the probe inside: the call passes the checks and suspends at
\* await analyzeVideo(), before setIsTranscoding(true).
StartProbing ==
    /\ GuardPasses /\ ProbesInside(variant)
    /\ ~(Validates(variant) /\ AboveCeiling(settings))
    /\ nJobs < MaxJobs
    /\ nJobs' = nJobs + 1
    /\ pc' = [pc EXCEPT ![nJobs + 1] = "probe"]
    /\ jobSettings' = [jobSettings EXCEPT ![nJobs + 1] = settings]
    /\ UNCHANGED <<variant, uiVars, execSt, timerVars, histVars, estVars, dbgVars, cmdVars, homeVars, prbVars, outFile, menuVars>>

transcode == StartIgnored \/ StartInvalid \/ StartAccepted \/ StartProbing

\* analyzeVideo() of invocation j resolves, with the metadata or (failed) with the
\* defaults of video.onerror: the state resets follow and fetchFile is called.
JobProbeSettle(j, failed) ==
    /\ pc[j] = "probe"
    /\ pc' = [pc EXCEPT ![j] = "fetch"]
    /\ probeFailed' = [probeFailed EXCEPT ![j] = failed]
    /\ isTranscoding' = TRUE
    /\ progress' = 0
    /\ outputUrl' = 0
    /\ error' = "null"
    /\ since' = IF j = nJobs THEN 0 ELSE since
    /\ gapsOk' = IF j = nJobs THEN TRUE ELSE gapsOk
    /\ UNCHANGED <<variant, isLoaded, loadPc, logMessages, videoAnalysis, probePending,
                   settings, nJobs, jobSettings, execSt, timerVars, timedOut,
                   dropped, estVars, dbgVars, cmdVars, homeVars, prbVars, outFile, menuVars>>

JobProbeResolve(j) == JobProbeSettle(j, FALSE)

JobProbeFail(j) == JobProbeSettle(j, TRUE)

\* catch and finally of transcode() for invocation j, rejected with kind m.
Catch(j, m) ==
    /\ pc' = [pc EXCEPT ![j] = "done"]
    /\ jobSettings' = [jobSettings EXCEPT ![j] = NoSettings]
    /\ error' = IF CatchFilters(variant) /\ m # "plain" THEN error ELSE "failed"
    /\ isTranscoding' = IF HasFinally(variant) THEN FALSE ELSE isTranscoding
    /\ wd' = WdAfter(isTranscoding', Len(logMessages), videoAnalysis)
    /\ tmr' = IF RefWatchdog(variant) THEN ClearedTmr ELSE tmr
    /\ timeoutRef' = IF NullsRef(variant) THEN 0 ELSE timeoutRef
    /\ Untrack(j)

\* fetchFile(inputFile) resolves and ffmpeg.writeFile is called.
FetchResolve(j) ==
    /\ pc[j] = "fetch"
    /\ pc' = [pc EXCEPT ![j] = "write"]
    /\ UNCHANGED <<variant, uiVars, nJobs, jobSettings, execSt, timerVars,
                   histVars, estVars, dbgVars, cmdVars, homeVars, prbVars, outFile, menuVars>>

\* fetchFile(inputFile) rejects.
FetchReject(j) ==
    /\ pc[j] = "fetch"
    /\ \E m \in ErrKinds : Catch(j, m)
    /\ UNCHANGED <<variant, isLoaded, loadPc, progress, outputUrl, logMessages,
                   videoAnalysis, probePending, settings, nJobs, execSt,
                   gapsOk, timedOut, probeFailed, dropped, estVars, dbgVars, cmdVars, homeVars, prbVars, outFile, menuVars>>

\* ffmpeg.writeFile resolves: startTimeout() in the timeoutRef versions, then
\* ffmpeg.exec(args) is called.
WriteResolve(j) ==
    /\ pc[j] = "write"
    /\ pc' = [pc EXCEPT ![j] = "exec"]
    /\ execSt' = [execSt EXCEPT ![j] = "running"]
    /\ tmr' = IF RefWatchdog(variant) THEN [ClearedTmr EXCEPT ![j] = Budget] ELSE tmr
    /\ timeoutRef' = IF RefWatchdog(variant) THEN j ELSE timeoutRef
    /\ UNCHANGED <<variant, uiVars, nJobs, jobSettings, wd, histVars, estVars, dbgVars, cmdVars, homeVars, prbVars, outFile, menuVars>>

\* ffmpeg.writeFile rejects.
WriteReject(j) ==
    /\ pc[j] = "write"
    /\ \E m \in ErrKinds : Catch(j, m)
    /\ UNCHANGED <<variant, isLoaded, loadPc, progress, outputUrl, logMessages,
                   videoAnalysis, probePending, settings, nJobs, execSt,
                   gapsOk, timedOut, probeFailed, dropped, estVars, dbgVars, cmdVars, homeVars, prbVars, outFile, menuVars>>

\* ffmpeg.exec resolves: the timer in timeoutRef is cleared and readFile is called.
\* exec resolves with the exit code of the run, which transcode() does not read:
\* the run has written 'output.mp4' (wrote) or has ended without opening it.
ExecSettle(j, wrote) ==
    /\ pc[j] = "exec" /\ execSt[j] = "running"
    /\ execSt' = [execSt EXCEPT ![j] = "resolved"]
    /\ pc' = [pc EXCEPT ![j] = "read"]
    /\ outFile' = IF wrote THEN j ELSE outFile
    /\ tmr' = IF RefWatchdog(variant) THEN ClearedTmr ELSE tmr
    /\ timeoutRef' = IF NullsRef(variant) THEN 0 ELSE timeoutRef
    /\ Untrack(j)
    /\ UNCHANGED <<variant, uiVars, nJobs, jobSettings, wd, gapsOk, timedOut, probeFailed,
                   dropped, estVars, dbgVars, cmdVars, homeVars, prbVars, menuVars>>

ExecResolve(j) == ExecSettle(j, TRUE)

ExecResolveNoOutput(j) == ExecSettle(j, FALSE)

\* ffmpeg.exec rejects.
ExecReject(j) ==
    /\ pc[j] = "exec" /\ execSt[j] = "running"
    /\ execSt' = [execSt EXCEPT ![j] = "rejected"]
    /\ \E m \in ErrKinds : Catch(j, m)
    /\ UNCHANGED <<variant, isLoaded, loadPc, progress, outputUrl, logMessages,
                   videoAnalysis, probePending, settings, nJobs,
                   gapsOk, timedOut, probeFailed, dropped, estVars, dbgVars, cmdVars, homeVars, prbVars, outFile, menuVars>>

\* The engine call hangs: it never settles and emits nothing more.
ExecHang(j) ==
    /\ execSt[j] = "running"
    /\ execSt' = [execSt EXCEPT ![j] = "hung"]
    /\ UNCHANGED <<variant, uiVars, nJobs, pc, jobSettings, timerVars, histVars,
                   estVars, dbgVars, cmdVars, homeVars, prbVars, outFile, menuVars>>

\* ffmpeg.readFile('output.mp4') resolves with the file in the engine's storage:
\* setOutputUrl(url), then finally.
ReadResolve(j) ==
    /\ pc[j] = "read"
    /\ outFile # 0
    /\ pc' = [pc EXCEPT ![j] = "done"]
    /\ jobSettings' = [jobSettings EXCEPT ![j] = NoSettings]
    /\ outputUrl' = j
    /\ isTranscoding' = IF HasFinally(variant) THEN FALSE ELSE isTranscoding
    /\ wd' = WdAfter(isTranscoding', Len(logMessages), videoAnalysis)
    /\ Untrack(j)
    /\ UNCHANGED <<variant, isLoaded, loadPc, progress, error, logMessages,
                   videoAnalysis, probePending, settings, nJobs,
                   execSt, tmr, timeoutRef, gapsOk, timedOut, probeFailed, dropped, estVars, dbgVars, cmdVars, homeVars, prbVars, outFile, menuVars>>

\* ffmpeg.readFile rejects.
ReadReject(j) ==
    /\ pc[j] = "read"
    /\ \E m \in ErrKinds : Catch(j, m)
    /\ UNCHANGED <<variant, isLoaded, loadPc, progress, outputUrl, logMessages,
                   videoAnalysis, probePending, settings, nJobs, execSt,
                   gapsOk, timedOut, probeFailed, dropped, estVars, dbgVars, cmdVars, homeVars, prbVars, outFile, menuVars>>

\* A 'log' handler whose line does not reach the dependencies of the watchdog
\* effect: the list grows and the timer runs on.
LogEventNoRestart(j) ==
    /\ KeepsLogs(variant)
    /\ execSt[j] = "running"
    /\ Len(logMessages) < MaxLogs
    /\ logMessages' = Append(logMessages, j)
    /\ UNCHANGED <<variant, isLoaded, loadPc, isTranscoding, progress, outputUrl, error,
                   videoAnalysis, probePending, settings, jobVars, timerVars,
                   histVars, estVars, dbgVars, cmdVars, homeVars, prbVars, outFile, menuVars>>

\* The 'log' handler: setLogMessages(prev => [...prev, message]).
LogEvent(j) ==
    /\ KeepsLogs(variant)
    /\ execSt[j] = "running"
    /\ Len(logMessages) < MaxLogs
    /\ logMessages' = Append(logMessages, j)
    /\ wd' = WdAfter(isTranscoding, Len(logMessages) + 1, videoAnalysis)
    /\ UNCHANGED <<variant, isLoaded, loadPc, isTranscoding, progress, outputUrl, error,
                   videoAnalysis, probePending, settings, jobVars, tmr, timeoutRef,
                   histVars, estVars, dbgVars, cmdVars, homeVars, prbVars, outFile, menuVars>>

\* A 'progress' handler without the range test: what ProgressHandler would be
\* if `progress >= 0 && progress <= 1` were dropped.
ProgressHandlerUnchecked(j, p) ==
    /\ progress' = p
    /\ tmr' = IF RefWatchdog(variant) THEN ClearedTmr ELSE tmr
    /\ timeoutRef' = IF RefWatchdog(variant) THEN 0 ELSE timeoutRef
    /\ Untrack(j)
    /\ dropped' = (dropped \/ p < 0 \/ p > 100)

\* The 'progress' handler for an event of value p.
ProgressHandler(j, p) ==
    IF p >= 0 /\ p <= 100
    THEN /\ progress' = p
         /\ tmr' = IF RefWatchdog(variant) THEN ClearedTmr ELSE tmr
         /\ timeoutRef' = IF RefWatchdog(variant) THEN 0 ELSE timeoutRef
         /\ Untrack(j)
         /\ UNCHANGED dropped
    ELSE /\ dropped' = TRUE
         /\ UNCHANGED <<progress, tmr, timeoutRef, since>>

\* The exec of invocation j emits a progress event of value p.
ProgressEventOf(j, p) ==
    /\ execSt[j] = "running"
    /\ ProgressHandler(j, p)
    /\ UNCHANGED <<variant, isLoaded, loadPc, isTranscoding, outputUrl, error,
                   logMessages, videoAnalysis, probePending, settings, jobVars, wd,
                   gapsOk, timedOut, probeFailed, estVars, dbgVars, cmdVars, homeVars, prbVars, outFile, menuVars>>

ProgressEvent(j) == \E p \in ProgressValues : ProgressEventOf(j, p)

\* The latest job is being timed by the history variables.
Tracked == nJobs > 0 /\ Active(nJobs) /\ gapsOk

\* The clock advances by one tick; a timer that is due fires first.
Tick ==
    /\ wd # 0 /\ \A j \in Jobs : tmr[j] # 0
    /\ wd > 0 \/ (\E j \in Jobs : tmr[j] > 0) \/ Tracked
    /\ wd' = IF wd > 0 THEN wd - 1 ELSE wd
    /\ tmr' = [j \in Jobs |-> IF tmr[j] > 0 THEN tmr[j] - 1 ELSE tmr[j]]
    /\ since' = IF Tracked /\ since + 1 < Budget THEN since + 1 ELSE 0
    /\ gapsOk' = (gapsOk /\ ~(Tracked /\ since + 1 >= Budget))
    /\ UNCHANGED <<variant, uiVars, jobVars, timeoutRef, timedOut, probeFailed, dropped, estVars, dbgVars, cmdVars, homeVars, prbVars, outFile, menuVars>>

\* The job a firing watchdog is reported against: the latest one, while it runs.
Reported == [j \in Jobs |-> timedOut[j] \/ (j = nJobs /\ Active(j))]

\* The effect's timer fires: setError(...stuck...), setIsTranscoding(false).
WatchdogFire ==
    /\ wd = 0
    /\ error' = "stuck"
    /\ isTranscoding' = FALSE
    /\ wd' = -1
    /\ timedOut' = Reported
    /\ UNCHANGED <<variant, isLoaded, loadPc, progress, outputUrl, logMessages,
                   videoAnalysis, probePending, settings, jobVars, tmr, timeoutRef,
                   since, gapsOk, probeFailed, dropped, estVars, dbgVars, cmdVars, homeVars, prbVars, outFile, menuVars>>

\* The timer invocation j created fires: setError(...timeout...), setIsTranscoding(false).
TimeoutFire(j) ==
    /\ tmr[j] = 0
    /\ error' = "timeout"
    /\ isTranscoding' = FALSE
    /\ tmr' = [tmr EXCEPT ![j] = -1]
    /\ timedOut' = Reported
    /\ UNCHANGED <<variant, isLoaded, loadPc, progress, outputUrl, logMessages,
                   videoAnalysis, probePending, settings, jobVars, wd, timeoutRef,
                   since, gapsOk, probeFailed, dropped, estVars, dbgVars, cmdVars, homeVars, prbVars, outFile, menuVars>>

JobStep(j) ==
    \/ JobProbeResolve(j) \/ JobProbeFail(j)
    \/ FetchResolve(j) \/ FetchReject(j)
    \/ WriteResolve(j) \/ WriteReject(j)
    \/ ExecResolve(j) \/ ExecResolveNoOutput(j) \/ ExecReject(j) \/ ExecHang(j)
    \/ ReadResolve(j) \/ ReadReject(j)
    \/ LogEvent(j) \/ ProgressEvent(j)
    \/ TimeoutFire(j)

Next ==
    \/ LoadResolve \/ LoadReject
    \/ ChangeSettings \/ ProbeResolve \/ ProbeReject
    \/ transcode
    \/ \E j \in Jobs : JobStep(j)
    \/ Tick \/ WatchdogFire

Init == InitSup /\ EstIdle /\ DbgIdle /\ CmdIdle /\ HomeIdle /\ PrbIdle /\ MenuIdle

Spec == Init /\ [][Next]_vars

\* The timers and the clock are the event loop's: a due timer fires and time passes.
FairSpec ==
    /\ Spec
    /\ WF_vars(Tick)
    /\ WF_vars(WatchdogFire)
    /\ \A j \in Jobs : WF_vars(TimeoutFire(j))

-----------------------------------------------------------------------------
(* Properties of the job supervisor                                        *)

\* C1: at most one engine invocation is outstanding at any time, and no
\* transcode() call is accepted while an earlier exec has not settled, the
\* exec of a job abandoned after a timeout included.
C1_OneExecOutstanding ==
    [][/\ Outstanding # {} => nJobs' = nJobs
       /\ Cardinality({j \in Jobs : execSt'[j] \in {"running", "hung"}}) <= 1]_vars

\* C2: once a job has been timed out, the continuation of its exec (resolved
\* or rejected) changes none of outputUrl, error, isTranscoding, progress and
\* logMessages.
C2_AbandonedExecChangesNothing ==
    [][\A j \in Jobs :
          (timedOut[j] /\ (pc'[j] # pc[j] \/ execSt'[j] # execSt[j]))
              => UNCHANGED <<outputUrl, error, isTranscoding, progress, logMessages>>]_vars

\* C3: a job whose exec is running and whose in-range progress events (and
\* its start) were never a full watchdog interval apart has not been timed out.
C3_SteadyProgressNeverTimedOut ==
    (nJobs > 0 /\ gapsOk /\ execSt[nJobs] = "running") => ~timedOut[nJobs]

\* C4: a job whose settings are above 1920x1080 is never accepted, so that
\* neither writeFile nor exec is called for it, in every version of the
\* supervisor.
C4_AboveCeilingNeverReachesEngine ==
    \A j \in Jobs : (Active(j) \/ WriteIssued(j)) => ~AboveCeiling(jobSettings[j])

\* C9: once an accepted job has run to its end (exec resolved, or rejected
\* with any message) and no job is running, isTranscoding is false, so that
\* the next transcode() call passes the guard.
C9_SettledJobLeavesReady ==
    ((\E j \in Jobs : pc[j] = "done") /\ (\A j \in Jobs : ~Active(j)))
        => ~isTranscoding

\* Ticks left on the watchdog of the component, -1 when none is armed.
WatchdogLeft ==
    IF wd >= 0 THEN wd ELSE IF timeoutRef # 0 THEN tmr[timeoutRef] ELSE -1

\* C11: while a job is running, a progress event of value 1 (100 %) leaves the
\* watchdog armed with a full budget, and a progress event of value 0 leaves
\* every timer as it was.
C11_PositiveProgressRearmsWatchdog ==
    [][\A j \in Jobs :
          (j = nJobs /\ isTranscoding /\ pc[j] = "exec")
              => /\ ProgressEventOf(j, 100) => WatchdogLeft' = Budget
                 /\ ProgressEventOf(j, 0) => UNCHANGED timerVars]_vars

\* C12: a job that ends (output, failure or timeout) leaves no timer of its own
\* armed, and the timer an invocation armed never fires while a later
\* invocation is between its acceptance and its end.
C12_TimerNeverFiresOnLaterJob ==
    [][\A j \in Jobs :
          /\ (pc[j] # "done" /\ pc'[j] = "done") => tmr'[j] = -1
          /\ (~timedOut[j] /\ timedOut'[j]) => (wd' = -1 /\ tmr'[j] = -1)
          /\ TimeoutFire(j) => ~(\E k \in Jobs : k > j /\ Active(k))]_vars

\* C13: a progress event whose value is outside [0,1] changes neither the
\* displayed progress nor any watchdog timer, and the displayed progress is
\* within [0,100] in every reachable state.
C13_OutOfRangeProgressIgnored ==
    /\ [](progress >= 0 /\ progress <= 100)
    /\ [][\A j \in Jobs : \A p \in ProgressValues :
             ((p < 0 \/ p > 100) /\ ProgressEventOf(j, p))
                 => UNCHANGED <<progress, timerVars>>]_vars

\* An out-of-range event reached the handler while a job showed progress and
\* its watchdog was armed.
C13_EventDroppedWhileArmed ==
    /\ dropped /\ isTranscoding /\ progress = 100 /\ WatchdogLeft > 0
    /\ nJobs > 0 /\ execSt[nJobs] = "running"

\* C14: while the latest job is running, every line of logMessages was emitted
\* by the exec of that job, and a progress event that changes the displayed
\* progress was emitted by the exec of that job, never by an earlier call.
C14_EventsOfOwnJobOnly ==
    /\ []((nJobs > 0 /\ Active(nJobs))
            => \A i \in 1..Len(logMessages) : logMessages[i] = nJobs)
    /\ [][\A j \in Jobs : \A p \in ProgressValues :
             (nJobs > 0 /\ Active(nJobs) /\ ProgressEventOf(j, p)
                  /\ progress' # progress)
                 => j = nJobs]_vars

\* C15: no writeFile and no exec call is made by an invocation whose probe of
\* the input failed.
C15_FailedProbeNoEngineWork ==
    \A j \in Jobs : probeFailed[j] => ~WriteIssued(j)

\* C16: until ffmpeg.load() has resolved the ready flag is false and no
\* transcode() call has been accepted, so that no writeFile and no exec has
\* been issued; a failed load stays failed.
C16_LoadGatesEngineWork ==
    /\ [](loadPc # "ready"
            => /\ ~isLoaded /\ nJobs = 0
               /\ \A j \in Jobs : ~WriteIssued(j) /\ ~Active(j))
    /\ [][loadPc = "failed" => loadPc' = "failed"]_vars

\* The load has failed and only the ready flag keeps transcode() from starting.
C16_LoadFailedWithInputReady ==
    /\ loadPc = "failed" /\ error = "load" /\ ~isTranscoding
    /\ videoAnalysis /\ ~probePending
    /\ ~AboveCeiling(settings)

\* C18: when an accepted job ends, by its output or by a rejection of fetchFile,
\* writeFile, exec or readFile with any kind of error, an output or an error
\* message is present.
C18_FinishedJobHasOutputOrError ==
    [][\A j \in Jobs :
          (pc[j] # "done" /\ pc'[j] = "done")
              => (outputUrl' # 0 \/ error' # "null")]_vars

\* C29: a transcode() call that fails the resolution ceiling check sets the
\* error message and changes neither isTranscoding, progress, outputUrl,
\* logMessages nor a watchdog timer; the guard of transcode() passes after it,
\* and a call made then with settings inside the ceiling is accepted.
C29_RejectedStartChangesErrorOnly ==
    [][/\ (transcode /\ GuardPasses /\ Validates(variant) /\ AboveCeiling(settings))
             => /\ error' = "validation"
                /\ UNCHANGED <<isTranscoding, progress, outputUrl, logMessages, timerVars>>
                /\ isLoaded' /\ ~isTranscoding'
                /\ ProbesInside(variant) \/ videoAnalysis'
       /\ (transcode /\ error = "validation" /\ GuardPasses /\ ~AboveCeiling(settings)
              /\ nJobs < MaxJobs)
             => nJobs' = nJobs + 1]_vars

\* A start was rejected while the output of a finished job was shown, the
\* settings are inside the ceiling again and the guard passes.
C29_RejectedAfterFinishedJob ==
    /\ error = "validation" /\ outputUrl = 1 /\ nJobs = 1
    /\ GuardPasses /\ ~AboveCeiling(settings)

\* C27: the bytes a job surfaces as its output (readFile resolving, then
\* setOutputUrl) are those its own exec wrote to 'output.mp4'.
C27_SurfacedOutputIsOwn ==
    [][\A j \in Jobs : ReadResolve(j) => outFile = j]_vars

\* C30: the step by which an accepted job goes on to its first engine
\* operation (it suspends at fetchFile, writeFile follows) leaves isTranscoding
\* true, progress 0, outputUrl and error null and logMessages empty; and while
\* the latest job is running (suspended at an engine operation and not timed
\* out) no output and no error is shown.
C30_RunningJobShowsNoEarlierResult ==
    /\ [][\A j \in Jobs :
             (pc[j] # "fetch" /\ pc'[j] = "fetch")
                 => /\ isTranscoding' /\ progress' = 0 /\ outputUrl' = 0
                    /\ error' = "null" /\ logMessages' = <<>>]_vars
    /\ []((nJobs > 0 /\ Active(nJobs) /\ ~timedOut[nJobs])
             => (outputUrl = 0 /\ error = "null"))

\* C31: with the watchdog effect, every log line received while isTranscoding
\* restarts the timer at the full budget; the timer only goes down by the
\* passing of time, one tick at a time, and the report is made when it has
\* run out, so a report follows a full budget without a log line; and a job
\* the watchdog has reported is not reported again.
C31_ReportAfterFullQuietBudget ==
    [][EffectWatchdog(variant) =>
         /\ \A j \in Jobs : (LogEvent(j) /\ isTranscoding) => wd' = Budget
         /\ (wd > 0 /\ wd' # wd) => (wd' = wd - 1 \/ wd' = Budget \/ wd' = -1)
         /\ (wd > 0 /\ wd' = wd - 1) => logMessages' = logMessages
         /\ (error' = "stuck" /\ error # "stuck") => (wd = 0 /\ isTranscoding)
         /\ (WatchdogFire /\ nJobs > 0) => ~timedOut[nJobs]]_vars

\* The watchdog reported job 1 after a log line of it had restarted the timer.
C31_ReportedAfterLogLine ==
    /\ EffectWatchdog(variant) /\ nJobs = 1 /\ timedOut[1]
    /\ error = "stuck" /\ logMessages = <<1>>

\* C32: with the timeoutRef watchdog, while a later job k is running, neither
\* the settlement of an awaited call of an earlier job j that was reported
\* timed out nor a progress event of j (k's own exec emitting none) changes
\* the timer of k or isTranscoding.
C32_EarlierJobLeavesLaterWatchdog ==
    [][RefWatchdog(variant) =>
         \A j \in Jobs, k \in Jobs :
             (/\ j < k /\ timedOut[j] /\ Active(j) /\ Active(k)
              /\ \/ pc'[j] # pc[j]
                 \/ /\ execSt[k] # "running"
                    /\ \E p \in ProgressValues : ProgressEventOf(j, p))
                 => (tmr'[k] = tmr[k] /\ isTranscoding' = isTranscoding)]_vars

\* C33: where the analysis is made by an effect, a start is not accepted while
\* the probe of the current input and settings is still in flight, that is,
\* with the videoAnalysis of the previous input or settings.
C33_StartWaitsForCurrentAnalysis ==
    [][(nJobs' = nJobs + 1 /\ ~ProbesInside(variant)) => ~probePending]_vars

\* C34: an output URL and an error message are never present together.
C34_OutputAndErrorExclusive ==
    ~(outputUrl # 0 /\ error # "null")

\* C10: a running job whose exec hangs (never settles, emits nothing more) is
\* eventually timed out, whether or not it emitted progress events before.
C10_HungJobEventuallyTimedOut ==
    \A j \in Jobs :
        (execSt[j] = "hung" /\ pc[j] = "exec" /\ ~timedOut[j]) ~> timedOut[j]

-----------------------------------------------------------------------------
(* Diagnostic batch runner                                                 *)
(*                                                                         *)
(* A trial is one iteration of the loop of runDebugTest(); the trials of   *)
(* all batches are numbered in the order they start. A log line is named   *)
(* by the trial whose exec emitted it, and 0 names an "ERROR: ..." line.   *)

\* The place in TEST_RESOLUTIONS of trial h, and the trial of batch b at place i.
ConfOf(h) == ((h - 1) % NConf) + 1

TrialId(b, i) == (b - 1) * NConf + i

\* The trial whose Promise.race runDebugTest() is awaiting, 0 when there is none.
CurrentTrial == IF dbgPc = "race" THEN TrialId(dbgBatch, trialIx) ELSE 0

\* The trials whose ffmpeg.on("log") handler is registered: none is removed.
Registered == {h \in Trials : dbgExec[h] # "none"}

\* The trials whose exec promise has not settled.
DbgOutstanding == {h \in Trials : dbgExec[h] \in {"running", "hung"}}

ErrorLine == 0

\* TEST_RESOLUTIONS.map(res => ({ resolution: res, status: "pending", logs: [] }))
initialResults ==
    [i \in 1..NConf |->
        [resolution |-> TEST_RESOLUTIONS[i], status |-> "pending", logs |-> <<>>]]

\* The update with the comparison turned round (r.resolution !== res): every
\* record but the one of res takes the outcome.
WithOutcomeOfOthers(results, res, st, lg) ==
    [k \in DOMAIN results |->
        IF results[k].resolution # res
        THEN [results[k] EXCEPT !.status = st, !.logs = lg]
        ELSE results[k]]

\* prev.map(r => r.resolution === res ? { ...r, status, logs } : r)
WithOutcome(results, res, st, lg) ==
    [k \in DOMAIN results |->
        IF results[k].resolution = res
        THEN [results[k] EXCEPT !.status = st, !.logs = lg]
        ELSE results[k]]

\* The last registered handler that writes the record at place k, 0 when none.
LastHandler(k) ==
    LET hs == {h \in Registered : ConfOf(h) = k}
    IN  IF hs = {} THEN 0 ELSE CHOOSE h \in hs : \A g \in hs : g <= h

\* Every registered log handler runs on a line, in registration order: it pushes
\* the line to its currentLogs and copies them into the record of its resolution.
LogsAfter(line) ==
    [h \in Trials |-> IF h \in Registered THEN Append(currentLogs[h], line)
                      ELSE currentLogs[h]]

ResultsAfter(line) ==
    [k \in DOMAIN debugResults |->
        IF LastHandler(k) # 0
        THEN [debugResults[k] EXCEPT !.logs = LogsAfter(line)[LastHandler(k)]]
        ELSE debugResults[k]]

\* The loop after place i: the next iteration registers its log handler, arms its
\* timer and calls exec; after the last place, setIsTesting(false).
NextIteration(i, ex, tm) ==
    IF i < NConf
    THEN /\ trialIx' = i + 1
         /\ dbgPc' = "race"
         /\ dbgExec' = [ex EXCEPT ![TrialId(dbgBatch, i + 1)] = "running"]
         /\ dbgTmr' = [tm EXCEPT ![TrialId(dbgBatch, i + 1)] = TrialBudget]
         /\ isTesting' = isTesting
    ELSE /\ trialIx' = 0
         /\ dbgPc' = "idle"
         /\ dbgExec' = ex
         /\ dbgTmr' = tm
         /\ isTesting' = FALSE

InitDbg ==
    /\ dbgLoadPc = "loading"
    /\ dbgInputFile \in BOOLEAN
    /\ isTesting = FALSE
    /\ debugResults = <<>>
    /\ dbgBatch = 0
    /\ dbgPc = "idle"
    /\ trialIx = 0
    /\ dbgExec = [h \in Trials |-> "none"]
    /\ dbgTmr = [h \in Trials |-> -1]
    /\ currentLogs = [h \in Trials |-> <<>>]
    /\ dbgLines = 0
    /\ EstIdle
    /\ SupIdle
    /\ CmdIdle
    /\ HomeIdle
    /\ PrbIdle
    /\ MenuIdle

\* load(): ffmpeg.load() resolves, setIsLoaded(true).
DbgLoadResolve ==
    /\ dbgLoadPc = "loading"
    /\ dbgLoadPc' = "ready"
    /\ UNCHANGED <<dbgInputFile, isTesting, debugResults, dbgBatch, dbgPc, trialIx,
                   dbgExec, dbgTmr, currentLogs, dbgLines, estVars, supVars, cmdVars, homeVars, prbVars, menuVars>>

\* load(): ffmpeg.load() rejects; the error is only written to the console.
DbgLoadReject ==
    /\ dbgLoadPc = "loading"
    /\ dbgLoadPc' = "failed"
    /\ UNCHANGED <<dbgInputFile, isTesting, debugResults, dbgBatch, dbgPc, trialIx,
                   dbgExec, dbgTmr, currentLogs, dbgLines, estVars, supVars, cmdVars, homeVars, prbVars, menuVars>>

\* runDebugTest() with the guard after setDebugResults(initialResults).
RunIgnoredAfterReset ==
    /\ dbgLoadPc # "ready" \/ ~dbgInputFile \/ isTesting
    /\ debugResults' = initialResults
    /\ UNCHANGED <<dbgLoadPc, dbgInputFile, isTesting, dbgBatch, dbgPc, trialIx,
                   dbgExec, dbgTmr, currentLogs, dbgLines, estVars, supVars, cmdVars,
                   homeVars, prbVars, menuVars>>

\* runDebugTest(): if (!isLoaded || !inputFile || isTesting) return;
RunIgnored ==
    /\ dbgLoadPc # "ready" \/ ~dbgInputFile \/ isTesting
    /\ UNCHANGED vars

\* runDebugTest(): the batch starts and suspends at fetchFile and writeFile.
RunAccepted ==
    /\ dbgLoadPc = "ready" /\ dbgInputFile /\ ~isTesting
    /\ dbgBatch < MaxBatches
    /\ dbgBatch' = dbgBatch + 1
    /\ isTesting' = TRUE
    /\ debugResults' = initialResults
    /\ dbgPc' = "write"
    /\ UNCHANGED <<dbgLoadPc, dbgInputFile, trialIx, dbgExec, dbgTmr, currentLogs,
                   dbgLines, estVars, supVars, cmdVars, homeVars, prbVars, menuVars>>

runDebugTest == RunIgnored \/ RunAccepted

\* ffmpeg.writeFile(inputFilename, ...) resolves: the loop starts its first iteration.
DbgWriteResolve ==
    /\ dbgPc = "write"
    /\ NextIteration(0, dbgExec, dbgTmr)
    /\ UNCHANGED <<dbgLoadPc, dbgInputFile, debugResults, dbgBatch, currentLogs,
                   dbgLines, estVars, supVars, cmdVars, homeVars, prbVars, menuVars>>

\* fetchFile or ffmpeg.writeFile rejects: the await is outside every try, so
\* runDebugTest() ends there with an unhandled rejection.
DbgWriteReject ==
    /\ dbgPc = "write"
    /\ dbgPc' = "crashed"
    /\ UNCHANGED <<dbgLoadPc, dbgInputFile, isTesting, debugResults, dbgBatch, trialIx,
                   dbgExec, dbgTmr, currentLogs, dbgLines, estVars, supVars, cmdVars, homeVars, prbVars, menuVars>>

\* The exec promise of trial h resolves. When the race of h is being awaited the
\* trial succeeds and the loop goes on.
DbgExecResolve(h) ==
    /\ dbgExec[h] = "running"
    /\ IF h = CurrentTrial
       THEN /\ debugResults' = WithOutcome(debugResults, TEST_RESOLUTIONS[ConfOf(h)],
                                           "success", debugResults[ConfOf(h)].logs)
            /\ NextIteration(trialIx, [dbgExec EXCEPT ![h] = "resolved"], dbgTmr)
       ELSE /\ dbgExec' = [dbgExec EXCEPT ![h] = "resolved"]
            /\ UNCHANGED <<debugResults, dbgPc, trialIx, dbgTmr, isTesting>>
    /\ UNCHANGED <<dbgLoadPc, dbgInputFile, dbgBatch, currentLogs, dbgLines,
                   estVars, supVars, cmdVars, homeVars, prbVars, menuVars>>

\* What a rejected exec promise can carry as err.message.
DbgErrMessages == {"Aborted", "Timeout"}

\* const status = err.message === "Timeout" ? "timeout" : "failed";
StatusOf(message) == IF message = "Timeout" THEN "timeout" ELSE "failed"

\* The exec promise of trial h rejects. When the race of h is being awaited the
\* catch block records the status of the message and the logs with an ERROR line.
DbgExecReject(h) ==
    /\ dbgExec[h] = "running"
    /\ IF h = CurrentTrial
       THEN /\ \E message \in DbgErrMessages :
                  debugResults' = WithOutcome(debugResults, TEST_RESOLUTIONS[ConfOf(h)],
                                              StatusOf(message),
                                              Append(currentLogs[h], ErrorLine))
            /\ NextIteration(trialIx, [dbgExec EXCEPT ![h] = "rejected"], dbgTmr)
       ELSE /\ dbgExec' = [dbgExec EXCEPT ![h] = "rejected"]
            /\ UNCHANGED <<debugResults, dbgPc, trialIx, dbgTmr, isTesting>>
    /\ UNCHANGED <<dbgLoadPc, dbgInputFile, dbgBatch, currentLogs, dbgLines,
                   estVars, supVars, cmdVars, homeVars, prbVars, menuVars>>

\* The exec of trial h hangs: it never settles and emits nothing more.
DbgExecHang(h) ==
    /\ dbgExec[h] = "running"
    /\ dbgExec' = [dbgExec EXCEPT ![h] = "hung"]
    /\ UNCHANGED <<dbgLoadPc, dbgInputFile, isTesting, debugResults, dbgBatch, dbgPc,
                   trialIx, dbgTmr, currentLogs, dbgLines, estVars, supVars, cmdVars, homeVars, prbVars, menuVars>>

\* The exec of trial h emits a log line: every registered handler runs.
DbgLogEvent(h) ==
    /\ dbgExec[h] = "running"
    /\ dbgLines < MaxDbgLines
    /\ dbgLines' = dbgLines + 1
    /\ currentLogs' = LogsAfter(h)
    /\ debugResults' = ResultsAfter(h)
    /\ UNCHANGED <<dbgLoadPc, dbgInputFile, isTesting, dbgBatch, dbgPc, trialIx,
                   dbgExec, dbgTmr, estVars, supVars, cmdVars, homeVars, prbVars, menuVars>>

\* A timer whose callback writes the "timeout" record itself, without the race.
DbgTimerFireRecords(h) ==
    /\ dbgTmr[h] = 0
    /\ debugResults' = WithOutcome(debugResults, TEST_RESOLUTIONS[ConfOf(h)],
                                   StatusOf("Timeout"),
                                   Append(currentLogs[h], ErrorLine))
    /\ IF h = CurrentTrial
       THEN NextIteration(trialIx, dbgExec, [dbgTmr EXCEPT ![h] = -1])
       ELSE /\ dbgTmr' = [dbgTmr EXCEPT ![h] = -1]
            /\ UNCHANGED <<dbgPc, trialIx, dbgExec, isTesting>>
    /\ UNCHANGED <<dbgLoadPc, dbgInputFile, dbgBatch, currentLogs, dbgLines,
                   estVars, supVars, cmdVars, homeVars, prbVars, menuVars>>

\* The timer of trial h fires: reject(new Error("Timeout")). When the race of h is
\* being awaited the catch block records "timeout"; a settled race ignores it.
DbgTimerFire(h) ==
    /\ dbgTmr[h] = 0
    /\ IF h = CurrentTrial
       THEN /\ debugResults' = WithOutcome(debugResults, TEST_RESOLUTIONS[ConfOf(h)],
                                           StatusOf("Timeout"),
                                           Append(currentLogs[h], ErrorLine))
            /\ NextIteration(trialIx, dbgExec, [dbgTmr EXCEPT ![h] = -1])
       ELSE /\ dbgTmr' = [dbgTmr EXCEPT ![h] = -1]
            /\ UNCHANGED <<debugResults, dbgPc, trialIx, dbgExec, isTesting>>
    /\ UNCHANGED <<dbgLoadPc, dbgInputFile, dbgBatch, currentLogs, dbgLines,
                   estVars, supVars, cmdVars, homeVars, prbVars, menuVars>>

\* The clock advances by one tick; a timer that is due fires first.
DbgTick ==
    /\ \A h \in Trials : dbgTmr[h] # 0
    /\ \E h \in Trials : dbgTmr[h] > 0
    /\ dbgTmr' = [h \in Trials |-> IF dbgTmr[h] > 0 THEN dbgTmr[h] - 1 ELSE dbgTmr[h]]
    /\ UNCHANGED <<dbgLoadPc, dbgInputFile, isTesting, debugResults, dbgBatch, dbgPc,
                   trialIx, dbgExec, currentLogs, dbgLines, estVars, supVars, cmdVars, homeVars, prbVars, menuVars>>

TrialStep(h) ==
    \/ DbgExecResolve(h) \/ DbgExecReject(h) \/ DbgExecHang(h)
    \/ DbgLogEvent(h) \/ DbgTimerFire(h)

NextDbg ==
    \/ DbgLoadResolve \/ DbgLoadReject
    \/ runDebugTest
    \/ DbgWriteResolve \/ DbgWriteReject
    \/ \E h \in Trials : TrialStep(h)
    \/ DbgTick

SpecDebug == InitDbg /\ [][NextDbg]_vars

\* The timers and the clock are the event loop's: a due timer fires and time passes.
FairSpecDebug ==
    /\ SpecDebug
    /\ WF_vars(DbgTick)
    /\ \A h \in Trials : WF_vars(DbgTimerFire(h))

\* The engine's write settles as well: writeFile resolves or rejects.
FairSpecBatch ==
    /\ FairSpecDebug
    /\ WF_vars(DbgWriteResolve \/ DbgWriteReject)

-----------------------------------------------------------------------------
(* Properties of the diagnostic batch runner                               *)

\* The lines of a log list.
LinesOf(lg) == {lg[n] : n \in 1..Len(lg)}

\* The record of trial h says what the engine call and the timer of h did.
OwnOutcome(h) ==
    LET r == debugResults[ConfOf(h)]
    IN  /\ r.status = "success" => dbgExec[h] = "resolved"
        /\ r.status = "failed" => dbgExec[h] = "rejected"
        /\ r.status = "timeout" => dbgTmr[h] = -1
        /\ LinesOf(r.logs) \subseteq {h, ErrorLine}

\* C5: a batch has one record per entry of TEST_RESOLUTIONS, in that order; a
\* trial whose exec rejected while it was awaited is "failed"; and the status
\* and the log list of every trial started after a failed one come from that
\* trial's own exec and timer only.
C5_FailedTrialLeavesLaterTrialsAlone ==
    dbgBatch > 0 =>
        /\ Len(debugResults) = NConf
        /\ \A k \in 1..NConf : debugResults[k].resolution = TEST_RESOLUTIONS[k]
        /\ \A g \in Registered :
              (dbgExec[g] = "rejected" /\ dbgTmr[g] # -1)
                  => debugResults[ConfOf(g)].status = "failed"
        /\ \A g \in Registered, h \in Registered :
              (g < h /\ debugResults[ConfOf(g)].status = "failed") => OwnOutcome(h)

\* C19: a trial whose race is being awaited becomes "success" when its exec
\* resolves, "failed" when its exec rejects and "timeout" when its timer fires;
\* a settlement of the exec or the timer of a trial whose race is over changes
\* neither the records nor the course of the batch.
C19_FirstSettlementDecidesTrial ==
    [][\A h \in Trials :
          LET st == debugResults'[ConfOf(h)].status
          IN  /\ (h = CurrentTrial /\ DbgExecResolve(h)) => st = "success"
              /\ (h = CurrentTrial /\ DbgExecReject(h)) => st = "failed"
              /\ (h = CurrentTrial /\ DbgTimerFire(h)) => st = "timeout"
              /\ (h # CurrentTrial
                    /\ (DbgExecResolve(h) \/ DbgExecReject(h) \/ DbgTimerFire(h)))
                  => UNCHANGED <<debugResults, isTesting, dbgPc, trialIx>>]_vars

\* C20: during a batch at most one exec promise is unsettled: the exec of the
\* next trial is not issued while the exec of an earlier trial, one that was
\* recorded as "timeout" included, has not settled.
C20_OneTrialExecOutstanding ==
    Cardinality(DbgOutstanding) <= 1

\* C21: in a batch the records with a status other than "pending" are a prefix
\* of TEST_RESOLUTIONS, and the exec of the trial at place k + 1 has been issued
\* only if the record at place k is no longer "pending".
C21_TrialsFilledInOrder ==
    dbgBatch > 0 =>
        \A k \in 1..(NConf - 1) :
            /\ debugResults[k + 1].status # "pending" => debugResults[k].status # "pending"
            /\ dbgExec[TrialId(dbgBatch, k + 1)] # "none"
                  => debugResults[k].status # "pending"

\* Two trials have ended, one of them by its timer, and the third is running.
C21_ThirdTrialRunsAfterTwoEnded ==
    /\ dbgBatch > 0 /\ dbgPc = "race" /\ trialIx = 3
    /\ debugResults[1].status = "failed"
    /\ debugResults[2].status = "timeout"
    /\ debugResults[3].status = "pending"
    /\ dbgExec[TrialId(dbgBatch, 2)] = "running"
    /\ dbgExec[TrialId(dbgBatch, 3)] = "running"

\* C22: within a batch the record of a trial that has a status other than
\* "pending" keeps its status and its log list, and a log line of the exec of
\* trial h changes no record but the one of trial h.
C22_SettledTrialRecordFrozen ==
    [][(dbgBatch > 0 /\ dbgBatch' = dbgBatch) =>
          \A k \in 1..NConf :
              /\ debugResults[k].status # "pending" => debugResults'[k] = debugResults[k]
              /\ \A h \in Trials :
                    (DbgLogEvent(h) /\ ConfOf(h) # k) => debugResults'[k] = debugResults[k]]_vars

C36_RefusedRunChangesNothing ==
    [][(runDebugTest /\ (dbgLoadPc # "ready" \/ ~dbgInputFile \/ isTesting))
          => UNCHANGED <<dbgBatch, isTesting, debugResults, dbgPc, trialIx, dbgExec, dbgTmr>>]_vars

\* A batch is at its second trial with the record of the first filled in: a
\* run request made now is refused.
C36_BatchInProgress ==
    /\ isTesting /\ dbgPc = "race" /\ trialIx = 2
    /\ debugResults[1].status # "pending"
    /\ ENABLED RunIgnored

\* C28: a started batch terminates: eventually isTesting is false again and
\* every trial has a status other than "pending", whatever the engine calls do.
C28_StartedBatchTerminates ==
    isTesting ~> /\ ~isTesting
                 /\ Len(debugResults) = NConf
                 /\ \A k \in 1..NConf : debugResults[k].status # "pending"

-----------------------------------------------------------------------------
(* Command builder                                                         *)
(*                                                                         *)
(* A file name is the sequence of parts name.split(".") yields, and the    *)
(* resolution string `${w}x${h}` the sequence of its three pieces.         *)

FileNames == { <<"clip">>, <<"clip", "">>, <<"my", "clip", "mov">> }

CmdResolutions == { [w |-> 640, h |-> 360], [w |-> 2560, h |-> 1080] }

CmdSettings ==
    [resolution : CmdResolutions, framerate : {24, 30}, bitrate : {2000},
     audioMono : BOOLEAN]

RECURSIVE Join(_, _)
\* Array.prototype.join
Join(parts, sep) ==
    IF parts = <<>> THEN ""
    ELSE IF Len(parts) = 1 THEN parts[1]
    ELSE parts[1] \o sep \o Join(Tail(parts), sep)

RECURSIVE ReplaceFirst(_, _, _)
\* String.prototype.replace with a string pattern: the first occurrence only.
ReplaceFirst(pieces, a, b) ==
    IF pieces = <<>> THEN <<>>
    ELSE IF Head(pieces) = a THEN <<b>> \o Tail(pieces)
    ELSE <<Head(pieces)>> \o ReplaceFirst(Tail(pieces), a, b)

\* settings.resolution
resolutionOf(stg) == <<ToString(stg.resolution.w), "x", ToString(stg.resolution.h)>>

\* inputFile.name.split(".").pop() || "mp4"
extensionOf(file) == IF file[Len(file)] # "" THEN file[Len(file)] ELSE "mp4"

\* The args array of generateFFmpegCommand.
commandArgs(file, stg) ==
    <<"-i", "input." \o extensionOf(file), "-c:v", "libx264", "-preset", "ultrafast",
      "-vf", "scale=" \o Join(ReplaceFirst(resolutionOf(stg), "x", ":"), ""),
      "-r", ToString(stg.framerate), "-b:v", ToString(stg.bitrate) \o "k",
      "-c:a", "copy">>
        \o (IF stg.audioMono THEN <<"-ac", "1">> ELSE <<>>)
        \o <<"output.mp4">>

\* transcode(): inputFile.name.split('.').pop() || 'tmp'
inputFilenameOf(file) ==
    "input." \o (IF file[Len(file)] # "" THEN file[Len(file)] ELSE "tmp")

\* An args array that never asks for one audio channel.
transcodeArgsStereo(file, stg) ==
    <<"-i", inputFilenameOf(file), "-c:v", "libx264", "-preset", "ultrafast",
      "-vf", "scale=" \o Join(ReplaceFirst(resolutionOf(stg), "x", ":"), ""),
      "-r", ToString(stg.framerate), "-b:v", ToString(stg.bitrate) \o "k",
      "-c:a", "copy", "output.mp4">>

\* The args array of transcode().
transcodeArgs(file, stg) ==
    <<"-i", inputFilenameOf(file), "-c:v", "libx264", "-preset", "ultrafast",
      "-vf", "scale=" \o Join(ReplaceFirst(resolutionOf(stg), "x", ":"), ""),
      "-r", ToString(stg.framerate), "-b:v", ToString(stg.bitrate) \o "k",
      "-c:a", "copy">>
        \o (IF stg.audioMono THEN <<"-ac", "1">> ELSE <<>>)
        \o <<"output.mp4">>

\* A builder that numbers its output by the builds made before it.
generateNumberedCommand(file, stg) ==
    "ffmpeg " \o Join(commandArgs(file, stg), " ") \o "." \o ToString(cmdBuilds)

generateFFmpegCommand(file, stg) == "ffmpeg " \o Join(commandArgs(file, stg), " ")

InitCmd ==
    /\ cmdFile \in FileNames
    /\ cmdSettings \in CmdSettings
    /\ ffmpegCommand = ""
    /\ cmdFresh = FALSE
    /\ cmdBuilds = 0
    /\ refInput = <<>>
    /\ refCommand = ""
    /\ execArgs = <<>>
    /\ EstIdle
    /\ SupIdle
    /\ DbgIdle
    /\ HomeIdle
    /\ PrbIdle
    /\ MenuIdle

\* The inputFile prop changes.
CmdSetFile ==
    /\ \E f \in FileNames : f # cmdFile /\ cmdFile' = f
    /\ cmdFresh' = FALSE
    /\ execArgs' = <<>>
    /\ UNCHANGED <<cmdSettings, ffmpegCommand, cmdBuilds, refInput, refCommand,
                   estVars, supVars, dbgVars, homeVars, prbVars, menuVars>>

\* The settings prop changes.
CmdSetSettings ==
    /\ \E t \in CmdSettings : t # cmdSettings /\ cmdSettings' = t
    /\ cmdFresh' = FALSE
    /\ execArgs' = <<>>
    /\ UNCHANGED <<cmdFile, ffmpegCommand, cmdBuilds, refInput, refCommand,
                   estVars, supVars, dbgVars, homeVars, prbVars, menuVars>>

\* performAnalysis(): setFfmpegCommand(generateFFmpegCommand(inputFile, settings)).
CmdBuild ==
    /\ cmdBuilds < MaxBuilds
    /\ cmdBuilds' = cmdBuilds + 1
    /\ ffmpegCommand' = generateFFmpegCommand(cmdFile, cmdSettings)
    /\ cmdFresh' = TRUE
    /\ refInput' = IF cmdBuilds = 0 THEN <<cmdFile, cmdSettings>> ELSE refInput
    /\ refCommand' = IF cmdBuilds = 0 THEN ffmpegCommand' ELSE refCommand
    /\ UNCHANGED <<cmdFile, cmdSettings, execArgs, estVars, supVars, dbgVars, homeVars, prbVars, menuVars>>

\* performAnalysis(): the analysis is null, setFfmpegCommand('').
CmdClear ==
    /\ ffmpegCommand # ""
    /\ ffmpegCommand' = ""
    /\ cmdFresh' = FALSE
    /\ UNCHANGED <<cmdFile, cmdSettings, cmdBuilds, refInput, refCommand, execArgs,
                   estVars, supVars, dbgVars, homeVars, prbVars, menuVars>>

\* transcode(): the args array is built from the props and given to ffmpeg.exec.
CmdTranscode ==
    /\ execArgs' = transcodeArgs(cmdFile, cmdSettings)
    /\ execArgs' # execArgs
    /\ UNCHANGED <<cmdFile, cmdSettings, ffmpegCommand, cmdFresh, cmdBuilds, refInput,
                   refCommand, estVars, supVars, dbgVars, homeVars, prbVars, menuVars>>

NextCmd == CmdSetFile \/ CmdSetSettings \/ CmdBuild \/ CmdClear \/ CmdTranscode

SpecCmd == InitCmd /\ [][NextCmd]_vars

-----------------------------------------------------------------------------
(* Properties of the command builder                                       *)

HasOption(args, flag, value) ==
    \E i \in 1..(Len(args) - 1) : args[i] = flag /\ args[i + 1] = value

\* The places of args that hold the string a.
PlacesOf(args, a) == {i \in 1..Len(args) : args[i] = a}

\* What C24 asks of an argument list built for settings stg.
ArgsWellFormed(args, stg) ==
    /\ HasOption(args, "-c:a", "copy")
    /\ HasOption(args, "-ac", "1") <=> stg.audioMono
    /\ Cardinality(PlacesOf(args, "-vf")) = 1
    /\ HasOption(args, "-vf", "scale=" \o ToString(stg.resolution.w) \o ":"
                                      \o ToString(stg.resolution.h))
    /\ args[Len(args)] = "output.mp4"
    /\ Cardinality(PlacesOf(args, "output.mp4")) = 1

\* C24: the argument list of the displayed command and the one transcode()
\* gives ffmpeg.exec both contain `-c:a copy`, contain `-ac 1` exactly when
\* audioMono is set, contain one -vf option, scale=W:H of the target, and end
\* with the only output name, output.mp4.
C24_ArgsPassAudioScaleOnce ==
    /\ execArgs # <<>> => ArgsWellFormed(execArgs, cmdSettings)
    /\ cmdFresh => /\ ArgsWellFormed(commandArgs(cmdFile, cmdSettings), cmdSettings)
                   /\ ffmpegCommand = "ffmpeg " \o Join(commandArgs(cmdFile, cmdSettings), " ")

\* transcode() has built the args for 2560x1080 at 30 fps with one audio channel
\* and the command for the same props is on display.
C24_MonoArgsBuilt ==
    /\ cmdFresh
    /\ cmdSettings = [resolution |-> [w |-> 2560, h |-> 1080], framerate |-> 30,
                      bitrate |-> 2000, audioMono |-> TRUE]
    /\ cmdFile = <<"my", "clip", "mov">>
    /\ execArgs = <<"-i", "input.mov", "-c:v", "libx264", "-preset", "ultrafast",
                    "-vf", "scale=2560:1080", "-r", "30", "-b:v", "2000k",
                    "-c:a", "copy", "-ac", "1", "output.mp4">>

\* C25: when the command on display and the args of transcode() were built from
\* the same file name and settings, the command is "ffmpeg" followed by those
\* args, joined by spaces.
C25_DisplayedCommandIsExecArgs ==
    (cmdFresh /\ execArgs # <<>>) => ffmpegCommand = "ffmpeg " \o Join(execArgs, " ")

-----------------------------------------------------------------------------
(* Page (Home)                                                             *)
(*                                                                         *)
(* The page keeps the selected file, its video properties, the output      *)
(* settings and the transcoder mode, and renders <Transcoder> or           *)
(* <SingleThreadedTranscoder> while a file and settings are present. Each  *)
(* of the two components keeps its engine in useRef(new FFmpeg()) and      *)
(* calls load() in its mount effect.                                       *)

\* FFmpeg instances kept by components in one behaviour.
MaxEngines == 3

\* Files the input can hand over, and settings the menu can hand over.
Files == {1, 2}

SettingsValues == {1, 2}

Modes == {"multi", "single"}

\* The transcoder component the page renders for this state: none while
\* selectedFile or outputSettings is null.
Rendered(file, stg, mode) == IF file # 0 /\ stg # 0 THEN mode ELSE "none"

\* The engines after a render with this state: a component that was not rendered
\* before mounts, keeps a new FFmpeg() in its ref and calls load().
EnginesAfter(file, stg, mode) ==
    IF /\ Rendered(file, stg, mode) # "none"
       /\ Rendered(file, stg, mode) # Rendered(selectedFile, outputSettings, transcoderMode)
    THEN Append(engines, [mode |-> mode, load |-> "loading"])
    ELSE engines

\* The mode is 'single' from the first effect on where SharedArrayBuffer is
\* undefined, and 'multi' otherwise.
InitHome ==
    /\ selectedFile = 0
    /\ metaPending = {}
    /\ videoProps = FALSE
    /\ outputSettings = 0
    /\ transcoderMode \in Modes
    /\ engines = <<>>
    /\ EstIdle
    /\ SupIdle
    /\ DbgIdle
    /\ CmdIdle
    /\ PrbIdle
    /\ MenuIdle

\* FileInput hands over a file, or null for no file, a non-video or a file that
\* is too large: the effect on selectedFile clears videoProps or starts reading
\* the metadata.
HomeSelectFile(f) ==
    /\ f # selectedFile
    /\ Len(EnginesAfter(f, outputSettings, transcoderMode)) <= MaxEngines
    /\ selectedFile' = f
    /\ videoProps' = IF f = 0 THEN FALSE ELSE videoProps
    /\ metaPending' = IF f = 0 THEN metaPending ELSE metaPending \cup {f}
    /\ engines' = EnginesAfter(f, outputSettings, transcoderMode)
    /\ UNCHANGED <<outputSettings, transcoderMode, estVars, supVars, dbgVars, cmdVars, prbVars, menuVars>>

\* video.onloadedmetadata: setVideoProps(...); the settings menu takes the new
\* properties and hands over its default settings when it has an option.
HomeMetadataLoaded(f) ==
    /\ f \in metaPending
    /\ metaPending' = metaPending \ {f}
    /\ videoProps' = TRUE
    /\ \E stg \in {outputSettings, 1} :
          /\ selectedFile = 0 => stg = outputSettings
          /\ Len(EnginesAfter(selectedFile, stg, transcoderMode)) <= MaxEngines
          /\ outputSettings' = stg
          /\ engines' = EnginesAfter(selectedFile, stg, transcoderMode)
    /\ UNCHANGED <<selectedFile, transcoderMode, estVars, supVars, dbgVars, cmdVars, prbVars, menuVars>>

\* video.onerror: setVideoProps(null).
HomeMetadataError(f) ==
    /\ f \in metaPending
    /\ metaPending' = metaPending \ {f}
    /\ videoProps' = FALSE
    /\ UNCHANGED <<selectedFile, outputSettings, transcoderMode, engines,
                   estVars, supVars, dbgVars, cmdVars, prbVars, menuVars>>

\* The user changes a setting in the menu: onChange(newSettings).
HomeChangeSettings(stg) ==
    /\ selectedFile # 0 /\ videoProps
    /\ stg # outputSettings
    /\ Len(EnginesAfter(selectedFile, stg, transcoderMode)) <= MaxEngines
    /\ outputSettings' = stg
    /\ engines' = EnginesAfter(selectedFile, stg, transcoderMode)
    /\ UNCHANGED <<selectedFile, metaPending, videoProps, transcoderMode,
                   estVars, supVars, dbgVars, cmdVars, prbVars, menuVars>>

\* The user picks the other transcoder mode: setTranscoderMode(value).
HomeSetMode(m) ==
    /\ selectedFile # 0
    /\ m # transcoderMode
    /\ Len(EnginesAfter(selectedFile, outputSettings, m)) <= MaxEngines
    /\ transcoderMode' = m
    /\ engines' = EnginesAfter(selectedFile, outputSettings, m)
    /\ UNCHANGED <<selectedFile, metaPending, videoProps, outputSettings,
                   estVars, supVars, dbgVars, cmdVars, prbVars, menuVars>>

\* The ffmpeg.load() of engine e settles.
HomeLoadSettle(e, outcome) ==
    /\ e \in 1..Len(engines)
    /\ engines[e].load = "loading"
    /\ engines' = [engines EXCEPT ![e].load = outcome]
    /\ UNCHANGED <<selectedFile, metaPending, videoProps, outputSettings, transcoderMode,
                   estVars, supVars, dbgVars, cmdVars, prbVars, menuVars>>

HomeLoadResolve(e) == HomeLoadSettle(e, "ready")

HomeLoadReject(e) == HomeLoadSettle(e, "failed")

NextHome ==
    \/ \E f \in {0} \cup Files : HomeSelectFile(f)
    \/ \E f \in Files : HomeMetadataLoaded(f) \/ HomeMetadataError(f)
    \/ \E stg \in SettingsValues : HomeChangeSettings(stg)
    \/ \E m \in Modes : HomeSetMode(m)
    \/ \E e \in 1..MaxEngines : HomeLoadResolve(e) \/ HomeLoadReject(e)

SpecHome == InitHome /\ [][NextHome]_vars

\* C17: whatever the user selects, changes or switches, the components of the
\* page keep at most one FFmpeg instance and start at most one load.
C17_SingleEngineSingleLoad ==
    Len(engines) <= 1

-----------------------------------------------------------------------------
(* Media probe (analyzeVideo)                                              *)
(*                                                                         *)
(* A run of analyzeVideo creates an object URL for the file, sets it as    *)
(* the source of a <video> element and settles when onloadedmetadata or    *)
(* onerror fires. Runs are numbered in the order they start; several can   *)
(* be in flight, since no effect cancels the run before it.                *)
(*   lib          lib/videoAnalysis analyzeVideo, called by the analysis   *)
(*                effect of Transcoder and SingleThreadedTranscoder        *)
(*   inComponent  the analyzeVideo effect inside the earlier               *)
(*                SingleThreadedTranscoder versions                        *)
(*   first        analyzeVideo of the first Transcoder, called by          *)
(*                transcode(); onerror resolves with default values        *)

PrbVariants == {"lib", "inComponent", "first"}

\* video.onerror calls URL.revokeObjectURL(url).
RevokesOnError(v) == v # "inComponent"

\* video.onerror resolves the promise with default values.
ResolvesOnError(v) == v = "first"

\* if (!inputFile || !settings.resolution) return;
HasInputGuard(v) == v # "first"

InitPrb ==
    /\ prbVariant \in PrbVariants
    /\ prbPc = [p \in Probes |-> "unused"]
    /\ prbUrl = [p \in Probes |-> "none"]
    /\ prbStored = 0
    /\ EstIdle
    /\ SupIdle
    /\ DbgIdle
    /\ CmdIdle
    /\ HomeIdle
    /\ MenuIdle

\* Run p is the next to start.
NextProbe(p) ==
    /\ prbPc[p] = "unused"
    /\ \A q \in Probes : q < p => prbPc[q] # "unused"

\* The run starts: URL.createObjectURL(inputFile), video.src = url.
PrbStart(p) ==
    /\ NextProbe(p)
    /\ prbPc' = [prbPc EXCEPT ![p] = "loading"]
    /\ prbUrl' = [prbUrl EXCEPT ![p] = "held"]
    /\ UNCHANGED <<prbVariant, prbStored, estVars, supVars, dbgVars, cmdVars, homeVars, menuVars>>

\* The run returns at once (no input file or no resolution): no URL is created.
PrbSkip(p) ==
    /\ HasInputGuard(prbVariant)
    /\ NextProbe(p)
    /\ prbPc' = [prbPc EXCEPT ![p] = "skipped"]
    /\ UNCHANGED <<prbVariant, prbUrl, prbStored, estVars, supVars, dbgVars, cmdVars, homeVars, menuVars>>

\* video.onloadedmetadata: URL.revokeObjectURL(url); resolve(analysis).
PrbLoaded(p) ==
    /\ prbPc[p] = "loading"
    /\ prbPc' = [prbPc EXCEPT ![p] = "loaded"]
    /\ prbUrl' = [prbUrl EXCEPT ![p] = "revoked"]
    /\ prbStored' = p
    /\ UNCHANGED <<prbVariant, estVars, supVars, dbgVars, cmdVars, homeVars, menuVars>>

\* video.onerror: the URL is revoked where the handler does so; the run ends with
\* null (setVideoAnalysis(null)) or, in the first version, with default values.
PrbError(p) ==
    /\ prbPc[p] = "loading"
    /\ prbPc' = [prbPc EXCEPT ![p] = "failed"]
    /\ prbUrl' = IF RevokesOnError(prbVariant) THEN [prbUrl EXCEPT ![p] = "revoked"]
                 ELSE prbUrl
    /\ prbStored' = IF ResolvesOnError(prbVariant) THEN p ELSE 0
    /\ UNCHANGED <<prbVariant, estVars, supVars, dbgVars, cmdVars, homeVars, menuVars>>

NextPrb == \E p \in Probes : PrbStart(p) \/ PrbSkip(p) \/ PrbLoaded(p) \/ PrbError(p)

SpecProbe == InitPrb /\ [][NextPrb]_vars

\* C26: a run of analyzeVideo that has settled, by onloadedmetadata or by
\* onerror, holds no object URL it created.
C26_SettledProbeHoldsNoUrl ==
    \A p \in Probes : prbPc[p] \in {"skipped", "loaded", "failed"} => prbUrl[p] # "held"

\* C33 (two analyses in flight): once a run requested later has settled, the
\* stored result is not that of a run requested earlier.
C33_StoredIsLatestRequested ==
    \A p \in Probes, q \in Probes :
        (p < q /\ prbPc[q] \in {"loaded", "failed"}) => prbStored # p

-----------------------------------------------------------------------------
(* Settings menu (OutputSettingsMenu)                                      *)
(*                                                                         *)
(* The menu is given the video properties of the selected file; an effect  *)
(* builds the resolution options for them and selects the last one. The    *)
(* aspect ratio is width / height of the same properties, so an option's   *)
(* width is computed here from the two integers, rounding as Math.round.   *)
(*   filtered    generateResolutionOptions(aspectRatio, inputWidth,        *)
(*               inputHeight), which leaves out the upscaling options      *)
(*   unfiltered  generateResolutionOptions(aspectRatio) of the earlier     *)
(*               menu, which offers every standard height                  *)

MenuVariants == {"filtered", "unfiltered"}

\* Widths and heights of the videos given to the menu.
InputWidths == {320, 426, 854, 1280, 1920, 2560, 3840}

InputHeights == {200, 240, 480, 720, 1080, 1600}

\* const standardHeights = [240, 360, 480, 720, 1080];
standardHeights == <<240, 360, 480, 720, 1080>>

\* Math.round((h * aspectRatio) / 2) * 2 for aspectRatio = inputWidth / inputHeight.
widthFor(h, inputWidth, inputHeight) ==
    ((h * inputWidth + inputHeight) \div (2 * inputHeight)) * 2

\* generateResolutionOptions of the earlier menu: one option per standard height.
generateAllOptions(inputWidth, inputHeight) ==
    [k \in 1..Len(standardHeights) |->
        [w |-> widthFor(standardHeights[k], inputWidth, inputHeight),
         h |-> standardHeights[k]]]

\* generateResolutionOptions: only if (h <= inputHeight && w <= inputWidth).
generateResolutionOptions(inputWidth, inputHeight) ==
    LET Downscales(o) == o.h <= inputHeight /\ o.w <= inputWidth
    IN  SelectSeq(generateAllOptions(inputWidth, inputHeight), Downscales)

OptionsOf(v, inputWidth, inputHeight) ==
    IF v = "filtered" THEN generateResolutionOptions(inputWidth, inputHeight)
    ELSE generateAllOptions(inputWidth, inputHeight)

InitMenu ==
    /\ menuVariant \in MenuVariants
    /\ menuInput = [w |-> 0, h |-> 0]
    /\ resolutions = <<>>
    /\ menuResolution = [w |-> 0, h |-> 0]
    /\ EstIdle
    /\ SupIdle
    /\ DbgIdle
    /\ CmdIdle
    /\ HomeIdle
    /\ PrbIdle

\* The video properties change: the effect builds the options and, when there is
\* one, selects the last (options[options.length - 1]).
MenuSetVideo ==
    /\ \E iw \in InputWidths, ih \in InputHeights :
          /\ menuInput # [w |-> iw, h |-> ih]
          /\ menuInput' = [w |-> iw, h |-> ih]
          /\ LET options == OptionsOf(menuVariant, iw, ih)
             IN  /\ resolutions' = options
                 /\ menuResolution' = IF options # <<>> THEN options[Len(options)]
                                      ELSE menuResolution
    /\ UNCHANGED <<menuVariant, estVars, supVars, dbgVars, cmdVars, homeVars, prbVars>>

\* handleResolutionChange: the user picks one of the options offered.
MenuSelectResolution ==
    /\ \E k \in 1..Len(resolutions) :
          /\ resolutions[k] # menuResolution
          /\ menuResolution' = resolutions[k]
    /\ UNCHANGED <<menuVariant, menuInput, resolutions, estVars, supVars, dbgVars,
                   cmdVars, homeVars, prbVars>>

NextMenu == MenuSetVideo \/ MenuSelectResolution

SpecMenu == InitMenu /\ [][NextMenu]_vars

\* C37: every option offered is no wider and no higher than the input.
C37_OptionsNeverUpscale ==
    \A k \in 1..Len(resolutions) :
        resolutions[k].w <= menuInput.w /\ resolutions[k].h <= menuInput.h

\* C38: every option offered, and the resolution selected in the menu, is
\* within the ceiling of transcode(): width <= 1920 and height <= 1080.
C38_OptionsWithinCeiling ==
    /\ \A k \in 1..Len(resolutions) : ~AboveCeiling(resolutions[k])
    /\ ~AboveCeiling(menuResolution)

====
